---- MODULE Spec2Model ----
(***************************************************************************)
(* Model of plugins/flashrom/fu-flashrom-internal-device.c: the prepare    *)
(* hook (one-time backup of the flash) and the write_firmware hook         *)
(* (descriptor layout, size check, write, verify, optional CMOS reset).    *)
(* Each libflashrom / libfwupdplugin call made by the two hooks is one     *)
(* step; the outcome of a call into hardware or the filesystem is chosen   *)
(* nondeterministically among the outcomes that call can report.           *)
(***************************************************************************)
EXTENDS Integers, Sequences, FiniteSets, TLC

\* ---------------------------------------------------------------- bounds
MaxFlashSize == 1
MaxByte == 1
MaxCalls == 2
MaxRc == 1

Byte == 0..MaxByte
Images(n) == [1..n -> Byte]
Zeros(n) == [i \in 1..n |-> 0]
\* images a caller may hand to write_firmware of a device with n bytes of flash:
\* every image of the right length, and one of each other length
UpdateImages(n) == Images(n) \cup {Zeros(k) : k \in 0..(MaxFlashSize + 1)}

\* a file: absent, or present with contents
NoFile == [exists |-> FALSE, data |-> <<>>]
File(d) == [exists |-> TRUE, data |-> d]
\* result of fu_firmware_get_bytes: NULL, or a blob
NoBytes == [ok |-> FALSE, data |-> <<>>]
Blob(d) == [ok |-> TRUE, data |-> d]
Blobs(n) == {NoBytes} \cup {Blob(d) : d \in UpdateImages(n)}
\* struct flashrom_layout *: id 0 is "no layout"
NoCtxLayout == 0
NoLayout == [id |-> NoCtxLayout, regions |-> {}, included |-> {}]

\* region names an Intel flash descriptor may carry
RegionNames == {"bios", "me"}
PrimaryRegion == "bios"

\* ------------------------------------------------------------ error values
OkResult == [ok |-> TRUE, code |-> "", prefix |-> "", msg |-> "", args |-> <<>>]
NoResult == [ok |-> FALSE, code |-> "pending", prefix |-> "", msg |-> "", args |-> <<>>]
Err(code, msg, args) == [ok |-> FALSE, code |-> code, prefix |-> "", msg |-> msg, args |-> args]
PrefixError(e, p) == [e EXCEPT !.prefix = p]

ErrIfdRead == Err("FWUPD_ERROR_READ", "failed to read layout from Intel ICH descriptor", <<>>)
ErrRegion == Err("FWUPD_ERROR_NOT_SUPPORTED", "invalid region name", <<>>)
ErrBackupRead == Err("FWUPD_ERROR_READ", "failed to back up original firmware", <<>>)
ErrImageSize(sz, fsz) == Err("FWUPD_ERROR_NOT_SUPPORTED", "invalid image size, expected", <<sz, fsz>>)
ErrImageWrite(r) == Err("FWUPD_ERROR_WRITE", "image write failed, err", <<r>>)
ErrImageVerify == Err("FWUPD_ERROR_WRITE", "image verify failed", <<>>)
\* errors raised inside callees of the two hooks and propagated unchanged
ErrMkdir == Err("set by fu_common_mkdir_parent", "", <<>>)
ErrSetContents == Err("set by fu_common_set_contents_bytes", "", <<>>)
ErrGetBytes == Err("set by fu_firmware_get_bytes", "", <<>>)
ErrCmos == Err("set by fu_flashrom_cmos_reset", "", <<>>)
CmosPrefix == "failed CMOS reset: "

\* ------------------------------------------------------------------ state
VARIABLES
    flash_size,     \* fu_flashrom_device_get_flash_size(parent)
    flash,          \* contents of the flash chip
    reset_cmos,     \* private flag FU_FLASHROM_DEVICE_FLAG_RESET_CMOS
    dirExists,      \* <localstatedir>/builder exists
    backup,         \* contents of flashrom-<id>.bin, or NoFile
    liveLayouts,    \* layouts obtained from the descriptor and not released
    nextLayout,     \* id the next flashrom_layout_read_from_ifd hands out
    ctxLayout,      \* layout set on the flashctx (NoCtxLayout: none)
    pc,             \* position inside the running hook, "idle" between hooks
    op,             \* hook that is running or ran last
    ncalls,         \* hooks started so far
    prepared,       \* the last hook was a prepare that returned TRUE
    buf,            \* newcontents (prepare) / blob_fw data (write_firmware)
    layout,         \* local layout: [id, regions, included], NoLayout before it is read
    rc,             \* return code of flashrom_image_write
    vrc,            \* return code of flashrom_image_verify
    cmosOk,         \* return value of fu_flashrom_cmos_reset
    rrc,            \* return code of flashrom_image_read
    progress,       \* [steps, done] of the FuProgress handed to write_firmware
    result,         \* return value and GError of the hook
    nIfd, nLayoutSet, nRead, nSave, nWrite, nVerify, nReset, nRelease,
    events,         \* order of write/verify/step_done inside the running hook
    backupAtEntry,  \* backup file existed when the hook was entered
    preparedAtEntry,\* value of prepared when the hook was entered
    prevCall,       \* summary of the hook that ran before the current one
    createdHere,    \* the backup file was created by a prepare of this run
    everWritten     \* flashrom_image_write has been invoked in this run

counters == <<nIfd, nLayoutSet, nRead, nSave, nWrite, nVerify, nReset, nRelease>>
device == <<flash_size, reset_cmos>>
rets == <<rc, vrc, cmosOk, rrc>>
layouts_ctx == <<liveLayouts, nextLayout, ctxLayout>>
files == <<dirExists, backup, createdHere>>
layouts == <<liveLayouts, nextLayout, ctxLayout, layout>>
entry == <<op, ncalls, backupAtEntry, preparedAtEntry, prevCall>>
vars == <<flash_size, flash, reset_cmos, dirExists, backup, liveLayouts, nextLayout,
          ctxLayout, pc, op, ncalls, prepared, buf, layout, rc, vrc, cmosOk, rrc, progress, result,
          nIfd, nLayoutSet, nRead, nSave, nWrite, nVerify, nReset, nRelease, events,
          backupAtEntry, preparedAtEntry, prevCall, createdHere, everWritten>>

NoCall == [op |-> "none", ok |-> FALSE, backupAtEntry |-> FALSE, nRead |-> 0, nSave |-> 0, nIfd |-> 0]
CallSummary == [op |-> op, ok |-> result.ok, backupAtEntry |-> backupAtEntry,
                nRead |-> nRead, nSave |-> nSave, nIfd |-> nIfd]

NewProgress == [steps |-> <<>>, done |-> 0]

Init ==
    /\ flash_size \in 1..MaxFlashSize
    /\ flash \in Images(flash_size)
    /\ reset_cmos \in BOOLEAN
    /\ dirExists \in BOOLEAN
    /\ backup \in {NoFile} \cup (IF dirExists THEN {File(d) : d \in Images(flash_size)} ELSE {})
    /\ createdHere = FALSE
    /\ everWritten = FALSE
    /\ liveLayouts = {}
    /\ nextLayout = 1
    /\ ctxLayout = NoCtxLayout
    /\ pc = "idle"
    /\ op = "none"
    /\ ncalls = 0
    /\ prepared = FALSE
    /\ buf = <<>>
    /\ layout = NoLayout
    /\ rc = 0
    /\ vrc = 0
    /\ cmosOk = TRUE
    /\ rrc = 0
    /\ progress = NewProgress
    /\ result = NoResult
    /\ nIfd = 0 /\ nLayoutSet = 0 /\ nRead = 0 /\ nSave = 0
    /\ nWrite = 0 /\ nVerify = 0 /\ nReset = 0 /\ nRelease = 0
    /\ events = <<>>
    /\ backupAtEntry = FALSE
    /\ preparedAtEntry = FALSE
    /\ prevCall = NoCall

\* ------------------------------------------------- hook entry and return
\* state common to entering either hook
Enter(name) ==
    /\ pc = "idle"
    /\ ncalls < MaxCalls
    /\ ncalls' = ncalls + 1
    /\ op' = name
    /\ prevCall' = CallSummary
    /\ backupAtEntry' = backup.exists
    /\ preparedAtEntry' = prepared
    /\ nIfd' = 0 /\ nLayoutSet' = 0 /\ nRead' = 0 /\ nSave' = 0
    /\ nWrite' = 0 /\ nVerify' = 0 /\ nReset' = 0 /\ nRelease' = 0
    /\ events' = <<>>
    /\ layout' = NoLayout
    /\ rc' = 0
    /\ vrc' = 0
    /\ cmosOk' = TRUE
    /\ rrc' = 0

\* return from the hook called name with the given result
Return(name, res) ==
    /\ pc' = "idle"
    /\ result' = res
    /\ prepared' = (name = "prepare" /\ res.ok)

\* go on to the next statement of the running hook
Continue(label) ==
    /\ pc' = label
    /\ UNCHANGED <<result, prepared>>

\* first statement after entering a hook
Proceed(label) ==
    /\ pc' = label
    /\ result' = NoResult
    /\ prepared' = FALSE

\* ------------------------------------------------------ libflashrom calls
\* flashrom_layout_include_region: 0 when the layout has the region, else nonzero
flashrom_layout_include_region(l, name) == IF name \in l.regions THEN 0 ELSE 1

\* outcomes of flashrom_layout_read_from_ifd: failure, or a layout holding the
\* regions of the descriptor
IfdOutcomes == {[ret |-> 1, regions |-> {}]} \cup {[ret |-> 0, regions |-> r] : r \in SUBSET RegionNames}

\* ------------------------------------------ fu_flashrom_internal_device_prepare
\* variant: the existence test is dropped and the backup is always taken
BackupMissingAlways(f) == TRUE
\* line 60: the backup is taken only when the file does not exist yet
BackupMissing(f) == ~f.exists

\* line 68: a nonzero return from flashrom_layout_read_from_ifd is a failure
PrepareIfdReadFailed(ret) == ret # 0

\* variant: the return of include_region is ignored in prepare
PrepareIncludeRegionFailedIgnored(ret) == FALSE
\* line 77: a nonzero return from flashrom_layout_include_region is a failure
PrepareIncludeRegionFailed(ret) == ret # 0

\* variant: the return of the flash read is ignored
ImageReadFailedIgnored(ret) == FALSE
\* line 89: a nonzero return from flashrom_image_read is a failure
ImageReadFailed(ret) == ret # 0

\* variant: the return of set_contents is ignored
SaveFailedIgnored(ok) == FALSE
\* line 97: fu_common_set_contents_bytes returning FALSE is a failure
SaveFailed(ok) == ~ok

\* fu_common_mkdir_parent: creating a directory that exists succeeds
MkdirParentOutcomes(exists) == IF exists THEN {TRUE} ELSE BOOLEAN

\* lines 55-60: build the path, create the parent directory, test for the file
StartPrepare(mkdirOk) ==
    /\ Enter("prepare")
    /\ mkdirOk \in MkdirParentOutcomes(dirExists)
    /\ UNCHANGED <<device, flash, backup, createdHere, everWritten, layouts_ctx, progress>>
    /\ IF ~mkdirOk
         THEN /\ Return("prepare", ErrMkdir)
              /\ UNCHANGED <<dirExists, buf>>
         ELSE /\ dirExists' = TRUE
              /\ IF BackupMissing(backup)
                   THEN /\ buf' = Zeros(flash_size)
                        /\ Proceed("pr_read_ifd")
                   ELSE /\ Return("prepare", OkResult)
                        /\ UNCHANGED buf

\* lines 68-74
PrepareReadIfd(o) ==
    /\ pc = "pr_read_ifd"
    /\ nIfd' = nIfd + 1
    /\ UNCHANGED <<device, flash, files, everWritten, ctxLayout, progress, buf, rets, entry,
                   nLayoutSet, nRead, nSave, nWrite, nVerify, nReset, nRelease, events>>
    /\ IF PrepareIfdReadFailed(o.ret)
         THEN /\ Return("prepare", ErrIfdRead)
              /\ UNCHANGED <<liveLayouts, nextLayout, layout>>
         ELSE /\ layout' = [id |-> nextLayout, regions |-> o.regions, included |-> {}]
              /\ liveLayouts' = liveLayouts \cup {nextLayout}
              /\ nextLayout' = nextLayout + 1
              /\ Continue("pr_include")

\* lines 77-83
PrepareIncludeRegion ==
    /\ pc = "pr_include"
    /\ UNCHANGED <<device, flash, files, everWritten, liveLayouts, nextLayout, ctxLayout,
                   progress, buf, rets, entry, counters, events>>
    /\ IF PrepareIncludeRegionFailed(flashrom_layout_include_region(layout, PrimaryRegion))
         THEN /\ Return("prepare", ErrRegion)
              /\ UNCHANGED layout
         ELSE /\ layout' = [layout EXCEPT !.included = {PrimaryRegion}]
              /\ Continue("pr_set")

\* line 86
PrepareLayoutSet ==
    /\ pc = "pr_set"
    /\ ctxLayout' = layout.id
    /\ nLayoutSet' = nLayoutSet + 1
    /\ Continue("pr_read")
    /\ UNCHANGED <<device, flash, files, everWritten, liveLayouts, nextLayout, layout,
                   progress, buf, rets, entry, nIfd, nRead, nSave, nWrite, nVerify, nReset,
                   nRelease, events>>

\* lines 88-95: flashrom_image_read fills newcontents from the flash
PrepareRead(ret) ==
    /\ pc = "pr_read"
    /\ nRead' = nRead + 1
    /\ rrc' = ret
    /\ UNCHANGED <<device, flash, files, everWritten, layouts, progress, rc, vrc, cmosOk, entry,
                   nIfd, nLayoutSet, nSave, nWrite, nVerify, nReset, nRelease, events>>
    /\ IF ImageReadFailed(ret)
         THEN /\ Return("prepare", ErrBackupRead)
              /\ UNCHANGED buf
         ELSE /\ buf' = flash
              /\ Continue("pr_save")

\* fu_common_set_contents_bytes: the file holds the bytes when it succeeds and is
\* left as it was when it fails
SetContents(f, data, ok) == IF ok THEN File(data) ELSE f

\* lines 96-101
PrepareSave(ok) ==
    /\ pc = "pr_save"
    /\ nSave' = nSave + 1
    /\ UNCHANGED <<device, flash, dirExists, everWritten, layouts, progress, buf, rets, entry,
                   nIfd, nLayoutSet, nRead, nWrite, nVerify, nReset, nRelease, events>>
    /\ IF SaveFailed(ok)
         THEN /\ Return("prepare", ErrSetContents)
              /\ UNCHANGED <<backup, createdHere>>
         ELSE /\ backup' = SetContents(backup, buf, ok)
              /\ createdHere' = (createdHere \/ ok)
              /\ Return("prepare", OkResult)

\* --------------------------------- fu_flashrom_internal_device_write_firmware
\* lines 125-126: the two steps registered on the progress, in order
\* variant: the two steps are registered in the opposite order
WriteFirmwareStepsSwapped ==
    << [status |-> "FWUPD_STATUS_DEVICE_VERIFY", weight |-> 10],
       [status |-> "FWUPD_STATUS_DEVICE_WRITE", weight |-> 90] >>

WriteFirmwareSteps ==
    << [status |-> "FWUPD_STATUS_DEVICE_WRITE", weight |-> 90],
       [status |-> "FWUPD_STATUS_DEVICE_VERIFY", weight |-> 10] >>

\* fu_progress_step_done: the current step is done, the next becomes current
StepDone(p) == [p EXCEPT !.done = p.done + 1]

\* line 130: a nonzero return from flashrom_layout_read_from_ifd is a failure
IfdReadFailed(ret) == ret # 0

\* variant: the return of include_region is ignored
IncludeRegionFailedIgnored(ret) == FALSE
\* line 139: a nonzero return from flashrom_layout_include_region is a failure
IncludeRegionFailed(ret) == ret # 0

\* variant: the length of the image is not checked
SizeMismatchNever(sz, fsz) == FALSE
\* line 149: the image must be exactly as long as the flash
SizeMismatch(sz, fsz) == sz # fsz

\* variant: the rc of the write is ignored
WriteFailedIgnored(r) == FALSE
\* line 159: a nonzero rc from flashrom_image_write is a failure
WriteFailed(r) == r # 0

\* variant: the return of the verify is ignored
VerifyFailedIgnored(ret) == FALSE
\* line 169: a nonzero return from flashrom_image_verify is a failure
VerifyFailed(ret) == ret # 0

\* variant: the reset runs whatever the flag says
NeedsCmosResetAlways(flag) == TRUE
\* line 177: the CMOS reset runs when the private flag is set
NeedsCmosReset(flag) == flag

\* variant: the return of the reset is ignored
CmosResetFailedIgnored(ok) == FALSE
\* line 179: fu_flashrom_cmos_reset returning FALSE is a failure
CmosResetFailed(ok) == ~ok

\* lines 118-128: fetch the blob, register the progress steps
StartWriteFirmware(blob) ==
    /\ Enter("write_firmware")
    /\ UNCHANGED <<device, flash, files, everWritten, layouts_ctx>>
    /\ IF ~blob.ok
         THEN /\ Return("write_firmware", ErrGetBytes)
              /\ progress' = NewProgress
              /\ buf' = <<>>
         ELSE /\ progress' = [steps |-> WriteFirmwareSteps, done |-> 0]
              /\ buf' = blob.data
              /\ Proceed("wf_read_ifd")

\* lines 130-136
WriteReadIfd(o) ==
    /\ pc = "wf_read_ifd"
    /\ nIfd' = nIfd + 1
    /\ UNCHANGED <<device, flash, files, everWritten, ctxLayout, progress, buf, rets, entry,
                   nLayoutSet, nRead, nSave, nWrite, nVerify, nReset, nRelease, events>>
    /\ IF IfdReadFailed(o.ret)
         THEN /\ Return("write_firmware", ErrIfdRead)
              /\ UNCHANGED <<liveLayouts, nextLayout, layout>>
         ELSE /\ layout' = [id |-> nextLayout, regions |-> o.regions, included |-> {}]
              /\ liveLayouts' = liveLayouts \cup {nextLayout}
              /\ nextLayout' = nextLayout + 1
              /\ Continue("wf_include")

\* lines 139-145
WriteIncludeRegion ==
    /\ pc = "wf_include"
    /\ UNCHANGED <<device, flash, files, everWritten, liveLayouts, nextLayout, ctxLayout,
                   progress, buf, rets, entry, counters, events>>
    /\ IF IncludeRegionFailed(flashrom_layout_include_region(layout, PrimaryRegion))
         THEN /\ Return("write_firmware", ErrRegion)
              /\ UNCHANGED layout
         ELSE /\ layout' = [layout EXCEPT !.included = {PrimaryRegion}]
              /\ Continue("wf_set")

\* line 148
WriteLayoutSet ==
    /\ pc = "wf_set"
    /\ ctxLayout' = layout.id
    /\ nLayoutSet' = nLayoutSet + 1
    /\ Continue("wf_size")
    /\ UNCHANGED <<device, flash, files, everWritten, liveLayouts, nextLayout, layout,
                   progress, buf, rets, entry, nIfd, nRead, nSave, nWrite, nVerify, nReset,
                   nRelease, events>>

\* lines 149-157
WriteCheckSize ==
    /\ pc = "wf_size"
    /\ UNCHANGED <<device, flash, files, everWritten, layouts, progress, buf, rets, entry,
                   counters, events>>
    /\ IF SizeMismatch(Len(buf), flash_size)
         THEN Return("write_firmware", ErrImageSize(Len(buf), flash_size))
         ELSE Continue("wf_write")

\* what flashrom_image_write may leave on the chip: the image when it reports
\* success, anything when it reports failure
FlashAfterWrite(r, img, old) == IF r = 0 THEN {img} ELSE Images(Len(old))

\* lines 158-167
WriteImage(r, after) ==
    /\ pc = "wf_write"
    /\ after \in FlashAfterWrite(r, buf, flash)
    /\ nWrite' = nWrite + 1
    /\ everWritten' = TRUE
    /\ rc' = r
    /\ flash' = after
    /\ UNCHANGED <<device, files, layouts, buf, entry, vrc, cmosOk, rrc,
                   nIfd, nLayoutSet, nRead, nSave, nVerify, nReset, nRelease>>
    /\ IF WriteFailed(r)
         THEN /\ Return("write_firmware", ErrImageWrite(r))
              /\ events' = Append(events, "write")
              /\ UNCHANGED progress
         ELSE /\ progress' = StepDone(progress)
              /\ events' = events \o <<"write", progress.steps[progress.done + 1].status>>
              /\ Continue("wf_verify")

\* returns of flashrom_image_verify: 0 only when the chip holds the image
VerifyOutcomes(img, chip) == IF img = chip THEN {0, 1} ELSE {1}

\* lines 169-174
WriteVerify(ret) ==
    /\ pc = "wf_verify"
    /\ ret \in VerifyOutcomes(buf, flash)
    /\ nVerify' = nVerify + 1
    /\ vrc' = ret
    /\ UNCHANGED <<device, flash, files, everWritten, nextLayout, ctxLayout, layout, buf, rc, cmosOk, rrc,
                   entry, nIfd, nLayoutSet, nRead, nSave, nWrite, nReset>>
    /\ IF VerifyFailed(ret)
         THEN /\ Return("write_firmware", ErrImageVerify)
              /\ events' = Append(events, "verify")
              /\ UNCHANGED <<progress, liveLayouts, nRelease>>
         ELSE /\ progress' = StepDone(progress)
              /\ events' = events \o <<"verify", progress.steps[progress.done + 1].status>>
              /\ liveLayouts' = liveLayouts \ {layout.id}
              /\ nRelease' = nRelease + 1
              /\ Continue("wf_cmos")

\* lines 177-186
WriteCmosReset(ok) ==
    /\ pc = "wf_cmos"
    /\ UNCHANGED <<device, flash, files, everWritten, layouts, progress, buf, rc, vrc, rrc, entry,
                   nIfd, nLayoutSet, nRead, nSave, nWrite, nVerify, nRelease>>
    /\ IF NeedsCmosReset(reset_cmos)
         THEN /\ nReset' = nReset + 1
              /\ cmosOk' = ok
              /\ events' = Append(events, "reset")
              /\ IF CmosResetFailed(ok)
                   THEN Return("write_firmware", PrefixError(ErrCmos, CmosPrefix))
                   ELSE Return("write_firmware", OkResult)
         ELSE /\ ok = TRUE
              /\ UNCHANGED <<nReset, events, cmosOk>>
              /\ Return("write_firmware", OkResult)

\* ------------------------------------------------------------ specifications
PrepareSteps ==
    \/ \E o \in IfdOutcomes : PrepareReadIfd(o)
    \/ PrepareIncludeRegion
    \/ PrepareLayoutSet
    \/ \E ret \in {0, 1} : PrepareRead(ret)
    \/ \E ok \in BOOLEAN : PrepareSave(ok)

WriteSteps ==
    \/ \E o \in IfdOutcomes : WriteReadIfd(o)
    \/ WriteIncludeRegion
    \/ WriteLayoutSet
    \/ WriteCheckSize
    \/ \E r \in 0..MaxRc : \E after \in Images(flash_size) : WriteImage(r, after)
    \/ \E ret \in {0, 1} : WriteVerify(ret)
    \/ \E ok \in BOOLEAN : WriteCmosReset(ok)

\* either hook may be called whenever the device is idle
Next ==
    \/ \E mkdirOk \in BOOLEAN : StartPrepare(mkdirOk)
    \/ \E blob \in Blobs(flash_size) : StartWriteFirmware(blob)
    \/ PrepareSteps
    \/ WriteSteps

Spec == Init /\ [][Next]_vars

\* the daemon's update: write_firmware runs only after prepare returned TRUE
UpdateWriteFirmware(blob) == prepared /\ StartWriteFirmware(blob)

NextUpdate ==
    \/ \E mkdirOk \in BOOLEAN : StartPrepare(mkdirOk)
    \/ \E blob \in Blobs(flash_size) : UpdateWriteFirmware(blob)
    \/ PrepareSteps
    \/ WriteSteps

SpecUpdate == Init /\ [][NextUpdate]_vars

TypeOK ==
    /\ flash \in Images(flash_size)
    /\ pc \in {"idle", "pr_read_ifd", "pr_include", "pr_set", "pr_read", "pr_save",
               "wf_read_ifd", "wf_include", "wf_set", "wf_size", "wf_write", "wf_verify", "wf_cmos"}
    /\ backup.exists => dirExists
    /\ ncalls \in 0..MaxCalls
    /\ progress.done \in 0..Len(progress.steps)

\* ------------------------------------------------------------- properties
\* a write_firmware call that obtained its blob
InWrite == op = "write_firmware" /\ result # ErrGetBytes
InPrepare == op = "prepare"
Returned == pc = "idle"
WriteSucceeded == nWrite = 1 /\ rc = 0
VerifySucceeded == nVerify = 1 /\ vrc = 0
IsSizeMismatchError(e) == ~e.ok /\ e.code = "FWUPD_ERROR_NOT_SUPPORTED" /\ e.msg = "invalid image size, expected"
IsUnsupportedRegionError(e) == ~e.ok /\ e.code = "FWUPD_ERROR_NOT_SUPPORTED" /\ e.msg = "invalid region name"
IsWriteError(e) == ~e.ok /\ e.code = "FWUPD_ERROR_WRITE" /\ e.msg = "image write failed, err"
IsVerifyError(e) == ~e.ok /\ e.code = "FWUPD_ERROR_WRITE" /\ e.msg = "image verify failed"
IsPostActionError(e) == ~e.ok /\ e.prefix = CmosPrefix

\* C1: a write_firmware call whose image length differs from the flash size
\* never reads the descriptor, never writes, never verifies, and returns the
\* size-mismatch error.
C1_SizeGateFirst ==
    (InWrite /\ Len(buf) # flash_size) =>
        /\ nIfd = 0 /\ nWrite = 0 /\ nVerify = 0
        /\ (Returned => IsSizeMismatchError(result))

\* C2: a prepare entered with the backup file present returns TRUE without a
\* descriptor read, a flash read or a file write; two successive prepares, the
\* first starting without the file and succeeding, make one flash read and one
\* file write in total.
C2_IdempotentBackup ==
    /\ (InPrepare /\ backupAtEntry) =>
         (Returned /\ result = OkResult /\ nIfd = 0 /\ nRead = 0 /\ nSave = 0)
    /\ (InPrepare /\ prevCall.op = "prepare" /\ prevCall.ok /\ ~prevCall.backupAtEntry) =>
         /\ Returned /\ result = OkResult
         /\ prevCall.nRead + nRead = 1
         /\ prevCall.nSave + nSave = 1

C2_Witness ==
    /\ InPrepare /\ Returned /\ backupAtEntry /\ result.ok
    /\ prevCall.op = "prepare" /\ prevCall.ok /\ ~prevCall.backupAtEntry
    /\ prevCall.nRead = 1 /\ prevCall.nSave = 1

\* C3: verify is invoked only after the write of the same call returned 0; when
\* the write fails the call returns the write error, verify is not invoked and
\* the write step of the progress is not marked done.
C3_WriteOrdering ==
    InWrite =>
        /\ (nVerify > 0 => (WriteSucceeded /\ events[1] = "write" /\ events[3] = "verify"))
        /\ ((nWrite > 0 /\ rc # 0) =>
              /\ Returned /\ IsWriteError(result) /\ result.args = <<rc>>
              /\ nVerify = 0
              /\ progress.done = 0)

C3_Witness == InWrite /\ Returned /\ nWrite = 1 /\ rc # 0 /\ IsWriteError(result)

\* C4: when the layout read from the descriptor has no "bios" region,
\* write_firmware returns the invalid-region error, flashrom_layout_set is not
\* called and the write is not invoked.
C4_RegionRestriction ==
    (InWrite /\ layout # NoLayout /\ PrimaryRegion \notin layout.regions) =>
        /\ nLayoutSet = 0 /\ ctxLayout # layout.id
        /\ nWrite = 0 /\ nVerify = 0
        /\ pc \in {"wf_include", "idle"}
        /\ (Returned => IsUnsupportedRegionError(result))

C4_Witness ==
    /\ InWrite /\ Returned /\ layout # NoLayout /\ PrimaryRegion \notin layout.regions
    /\ IsUnsupportedRegionError(result)

\* C5: the CMOS reset is invoked exactly when the reset-cmos flag is set and the
\* write and the verify of the call both succeeded; without the flag a verified
\* write returns TRUE with no reset.
C5_PostActionGating ==
    InWrite =>
        /\ nReset <= 1
        /\ (nReset = 1 => (reset_cmos /\ WriteSucceeded /\ VerifySucceeded))
        /\ ((Returned /\ reset_cmos /\ WriteSucceeded /\ VerifySucceeded) => nReset = 1)
        /\ ((Returned /\ ~reset_cmos /\ WriteSucceeded /\ VerifySucceeded) =>
              (result = OkResult /\ nReset = 0))
        /\ ((Returned /\ ~result.ok /\ ~IsPostActionError(result)) => nReset = 0)

C5_Witness ==
    InWrite /\ Returned /\ ~reset_cmos /\ WriteSucceeded /\ VerifySucceeded /\ result.ok /\ nReset = 0

\* C6: with the flag set, write and verify succeeded and the CMOS reset failing,
\* write_firmware returns FALSE with the "failed CMOS reset: " prefix, while both
\* progress steps are already done and the flash holds the written image.
C6_PostActionFailure ==
    (InWrite /\ reset_cmos /\ WriteSucceeded /\ VerifySucceeded /\ nReset = 1 /\ ~cmosOk) =>
        /\ Returned
        /\ ~result.ok /\ IsPostActionError(result)
        /\ progress.done = 2
        /\ flash = buf

C6_Witness ==
    InWrite /\ Returned /\ reset_cmos /\ nReset = 1 /\ ~cmosOk /\ IsPostActionError(result)

\* C7: when the write returns 0 and the verify fails, write_firmware returns the
\* verify error, the write step (weight 90) is done, the verify step (weight 10)
\* is not, and the CMOS reset is not invoked.
C7_VerifyFailure ==
    (InWrite /\ WriteSucceeded /\ nVerify = 1 /\ vrc # 0) =>
        /\ Returned /\ IsVerifyError(result)
        /\ progress.done = 1
        /\ progress.steps[1] = [status |-> "FWUPD_STATUS_DEVICE_WRITE", weight |-> 90]
        /\ progress.steps[2] = [status |-> "FWUPD_STATUS_DEVICE_VERIFY", weight |-> 10]
        /\ nReset = 0

C7_Witness == InWrite /\ Returned /\ WriteSucceeded /\ nVerify = 1 /\ vrc # 0 /\ IsVerifyError(result)

\* the step_done marks of the running call, in order
Marks == SelectSeq(events, LAMBDA e : e \notin {"write", "verify", "reset"})
IsPrefix(a, b) == Len(a) <= Len(b) /\ \A i \in 1..Len(a) : a[i] = b[i]

\* C8: the steps are registered as write(90), verify(10); the write step is
\* marked done at most once and only after a write that returned 0, the verify
\* step at most once and only after the write step is done and the verify
\* returned 0; a call that returns TRUE marked each step done once, in order.
C8_ProgressMonotonic ==
    InWrite =>
        /\ progress.steps = << [status |-> "FWUPD_STATUS_DEVICE_WRITE", weight |-> 90],
                               [status |-> "FWUPD_STATUS_DEVICE_VERIFY", weight |-> 10] >>
        /\ IsPrefix(events, <<"write", "FWUPD_STATUS_DEVICE_WRITE",
                              "verify", "FWUPD_STATUS_DEVICE_VERIFY", "reset">>)
        /\ progress.done = Len(Marks)
        /\ (progress.done >= 1 => WriteSucceeded)
        /\ (progress.done >= 2 => VerifySucceeded)
        /\ ((Returned /\ result.ok) =>
              Marks = <<"FWUPD_STATUS_DEVICE_WRITE", "FWUPD_STATUS_DEVICE_VERIFY">>)

C8_Witness ==
    /\ InWrite /\ Returned /\ result.ok
    /\ Marks = <<"FWUPD_STATUS_DEVICE_WRITE", "FWUPD_STATUS_DEVICE_VERIFY">>

\* C9: in an update run as prepare then write_firmware, flashrom_image_write is
\* never invoked while the backup file is absent; a prepare that fails leaves no
\* backup file behind and is not followed by a flash write.
C9_BackupPrecedesWrite ==
    /\ (op = "write_firmware" /\ nWrite > 0) => backup.exists
    /\ everWritten => backup.exists
    /\ op = "write_firmware" => preparedAtEntry
    /\ (InPrepare /\ Returned /\ ~result.ok) =>
          (~backup.exists /\ ~backupAtEntry /\ ~prepared /\ nWrite = 0)

C9_Witness == op = "write_firmware" /\ nWrite = 1 /\ backup.exists /\ createdHere

\* C10: an existing backup file is never changed or removed; a file created by
\* prepare is as long as the flash and holds the flash contents read by that
\* prepare, taken before the first flashrom_image_write.
C10_BackupWriteOnce ==
    /\ [](createdHere => (backup.exists /\ Len(backup.data) = flash_size))
    /\ []((createdHere /\ ~everWritten) => backup.data = flash)
    /\ [][backup.exists => backup' = backup]_vars
    /\ [][backup' # backup => (backup'.data = flash /\ nRead = 1 /\ ~everWritten)]_vars

C10_Witness ==
    /\ op = "write_firmware" /\ Returned /\ preparedAtEntry
    /\ createdHere /\ everWritten /\ backup.data # flash

\* C11: every layout write_firmware obtained from the descriptor is released
\* before the call returns, on every exit path, so no layout of the call is
\* still acquired, or still set on the flashctx, once it has returned.
C11_LayoutReleasedOnReturn ==
    (InWrite /\ Returned /\ layout # NoLayout) =>
        /\ layout.id \notin liveLayouts
        /\ nRelease = 1

\* C12: a write_firmware call whose image length differs from the flash size
\* returns the size-mismatch error whatever the descriptor holds, never the
\* descriptor-read error or the invalid-region error.
C12_SizeErrorFirst ==
    (InWrite /\ Returned /\ Len(buf) # flash_size) =>
        /\ IsSizeMismatchError(result)
        /\ result # ErrIfdRead
        /\ result # ErrRegion

\* C13: in a write_firmware call whose image length differs from the flash size
\* the write and the verify are not invoked, no progress step is marked done,
\* the CMOS reset is not invoked, and the flash keeps its contents.
C13_SizeMismatchNoMutation ==
    /\ []((InWrite /\ Len(buf) # flash_size) =>
            (nWrite = 0 /\ nVerify = 0 /\ progress.done = 0 /\ nReset = 0))
    /\ []((InWrite /\ IsSizeMismatchError(result)) =>
            (Returned /\ Len(buf) # flash_size /\ result.args = <<Len(buf), flash_size>>))
    /\ [][(op' = "write_firmware" /\ nWrite' = 0) => flash' = flash]_vars

C13_Witness ==
    /\ InWrite /\ Returned /\ IsSizeMismatchError(result)
    /\ nIfd = 1 /\ nLayoutSet = 1 /\ nWrite = 0 /\ progress.done = 0

\* error codes write_firmware returns for failures before the verify
EarlyStageCodes == {ErrIfdRead.code, ErrRegion.code, ErrImageSize(0, 0).code, ErrImageWrite(1).code}

\* C14: the error code write_firmware returns for a verify failure, and for a
\* failed CMOS reset, differs from the code of every earlier-stage failure
\* (descriptor read, region, size, write), so the code alone tells them apart.
C14_LateErrorsDistinct ==
    (InWrite /\ Returned /\ ((nVerify = 1 /\ vrc # 0) \/ (nReset = 1 /\ ~cmosOk))) =>
        result.code \notin EarlyStageCodes

\* C15: inside one write_firmware the descriptor read, the write, the verify and
\* the CMOS reset are each invoked at most once and nothing more is invoked after
\* the first one that fails; inside one prepare the flash is read at most once
\* and the file is not written after a failed read.
C15_TerminalOnFirstFailure ==
    /\ nIfd <= 1 /\ nWrite <= 1 /\ nVerify <= 1 /\ nReset <= 1 /\ nRead <= 1 /\ nSave <= 1
    /\ InWrite =>
         /\ (nIfd = 1 /\ layout = NoLayout) =>
               (Returned /\ ~result.ok /\ nWrite = 0 /\ nVerify = 0 /\ nReset = 0)
         /\ (nWrite = 1 /\ rc # 0) => (Returned /\ ~result.ok /\ nVerify = 0 /\ nReset = 0)
         /\ (nVerify = 1 /\ vrc # 0) => (Returned /\ ~result.ok /\ nReset = 0)
         /\ (nReset = 1 /\ ~cmosOk) => (Returned /\ ~result.ok)
         /\ nRead = 0 /\ nSave = 0
    /\ InPrepare =>
         /\ (nIfd = 1 /\ layout = NoLayout) => (Returned /\ ~result.ok /\ nRead = 0 /\ nSave = 0)
         /\ (nRead = 1 /\ rrc # 0) => (Returned /\ result = ErrBackupRead /\ nSave = 0)
         /\ nSave = 1 => (nRead = 1 /\ rrc = 0)
         /\ nWrite = 0 /\ nVerify = 0 /\ nReset = 0

C15_Witness == InPrepare /\ Returned /\ nRead = 1 /\ rrc # 0 /\ nSave = 0 /\ ~result.ok

\* C16: write_firmware returns TRUE only when the image was as long as the
\* flash, the write was invoked and returned 0, the verify was then invoked on
\* the same image and returned 0 and, with the reset-cmos flag set, the CMOS
\* reset succeeded.
C16_SuccessImpliesVerified ==
    (InWrite /\ Returned /\ result.ok) =>
        /\ Len(buf) = flash_size
        /\ WriteSucceeded /\ VerifySucceeded
        /\ events[1] = "write" /\ events[3] = "verify"
        /\ flash = buf
        /\ reset_cmos => (nReset = 1 /\ cmosOk)

C16_Witness == InWrite /\ Returned /\ result.ok /\ reset_cmos /\ nReset = 1 /\ VerifySucceeded

\* the running prepare failed at the descriptor read, the region or the flash read
BackupReadFailed ==
    \/ (nIfd = 1 /\ layout = NoLayout /\ pc # "pr_read_ifd")
    \/ (layout # NoLayout /\ PrimaryRegion \notin layout.regions /\ pc # "pr_include")
    \/ (nRead = 1 /\ rrc # 0)

\* C17: a prepare that fails at the descriptor read, at the region or at the
\* flash read creates no backup file, so the next prepare finds the file absent
\* and goes through the descriptor read, the flash read and the file write again
\* instead of returning at once.
C17_FailedBackupRetried ==
    /\ (InPrepare /\ BackupReadFailed) =>
          (Returned /\ ~result.ok /\ nSave = 0 /\ ~backup.exists)
    /\ (InPrepare /\ prevCall.op = "prepare" /\ ~prevCall.ok
          /\ prevCall.nIfd = 1 /\ prevCall.nSave = 0) =>
          /\ ~backupAtEntry
          /\ pc # "idle" \/ nIfd = 1
          /\ (Returned /\ result.ok) => (nIfd = 1 /\ nRead = 1 /\ nSave = 1 /\ backup = File(flash))

C17_Witness ==
    /\ InPrepare /\ Returned /\ result.ok /\ nRead = 1 /\ nSave = 1 /\ backup.exists
    /\ prevCall.op = "prepare" /\ ~prevCall.ok /\ prevCall.nRead = 1 /\ prevCall.nSave = 0

\* C18: the layout prepare read from the descriptor is released before prepare
\* returns, on the success path and on every error path, so no layout of the
\* backup is still acquired or set on the flashctx when write_firmware starts.
C18_PrepareReleasesLayout ==
    (InPrepare /\ Returned /\ layout # NoLayout) =>
        /\ layout.id \notin liveLayouts
        /\ ctxLayout # layout.id

====
